---- MODULE Spec2Model ----
(***************************************************************************)
(* Model of the storage-encoding core of solomon-db:                       *)
(*   db/src/util/byte.rs        Component, build_bytes, build_meta,        *)
(*                              deserialize_data_with_meta,                *)
(*                              deserialize_byte_data                      *)
(*   db/src/controller/edge.rs  EdgeController::key / ::create             *)
(* Bytes are naturals in 0..255 and buffers are sequences of bytes.        *)
(* Rust's 0-based index k is position k + 1 of a sequence.                 *)
(***************************************************************************)
EXTENDS Integers, Sequences, FiniteSets, TLC

VARIABLES
    overflow_checks,   \* build profile: TRUE = arithmetic overflow panics, FALSE = wraps
    edges,             \* committed keys of the "edges:v1" partition
    props,             \* edge properties committed by the property controller
    calls,             \* one record per invocation of EdgeController::create:
                       \* its arguments, key, open transaction, position (pc)
                       \* and the store operations it has performed (steps)
    components,        \* argument of build_bytes
    built,             \* outcome of build_bytes
    has_discriminator, \* flag handed to the decoders
    groups,            \* the groups packed into data, in order
    data,              \* the stored value handed to the decoders
    truncated,         \* TRUE once data lost trailing bytes
    decoded            \* outcome of the last decoder call

edgeVars == <<edges, props, calls>>
buildVars == <<components, built>>
decodeVars == <<has_discriminator, groups, data, truncated, decoded>>
vars == <<overflow_checks, edges, props, calls, components, built,
          has_discriminator, groups, data, truncated, decoded>>

----------------------------------------------------------------------------
(* Program constants *)

U8Modulus == 256
UuidLen == 16
DateTimeLen == 8
U64Len == 8
MetaLength == 2
DiscriminatorLength == 4
NanosPerSec == 1000000000
I32Max == 2147483647
MaxNanosecond == 1999999999

(* Bounds of the model *)

MaxCalls == 2

----------------------------------------------------------------------------
(* u64 / i64 arithmetic on 8 little-endian byte limbs (TLC integers are     *)
(* 32 bit wide, the program's are 64 bit wide).                             *)

RECURSIVE NatToLE(_, _)
NatToLE(n, k) ==
    IF k = 0 THEN <<>> ELSE <<n % U8Modulus>> \o NatToLE(n \div U8Modulus, k - 1)

U64(n) == NatToLE(n, U64Len)

RECURSIVE AddLE(_, _, _, _)
AddLE(a, b, i, c) ==
    IF i > Len(a) THEN <<c>>
    ELSE LET s == a[i] + b[i] + c
         IN <<s % U8Modulus>> \o AddLE(a, b, i + 1, s \div U8Modulus)

\* a + b in u64: the wrapped value and whether it overflowed
u64_add(a, b) ==
    LET r == AddLE(a, b, 1, 0)
    IN [val |-> SubSeq(r, 1, Len(a)), overflow |-> r[Len(a) + 1] # 0]

\* a - b in u64: the wrapped value and whether it underflowed
u64_sub(a, b) ==
    LET nb == [i \in 1..Len(b) |-> (U8Modulus - 1) - b[i]]
        r == AddLE(a, nb, 1, 1)
    IN [val |-> SubSeq(r, 1, Len(a)), overflow |-> r[Len(a) + 1] = 0]

RECURSIVE MulColumn(_, _, _, _)
MulColumn(a, b, k, i) ==
    IF i > Len(a) THEN 0
    ELSE (IF k + 1 - i >= 1 /\ k + 1 - i <= Len(b) THEN a[i] * b[k + 1 - i] ELSE 0)
         + MulColumn(a, b, k, i + 1)

RECURSIVE MulLE(_, _, _, _)
MulLE(a, b, k, c) ==
    IF k > 2 * Len(a) THEN <<>>
    ELSE LET s == c + MulColumn(a, b, k, 1)
         IN <<s % U8Modulus>> \o MulLE(a, b, k + 1, s \div U8Modulus)

\* a * b in u64: the wrapped value and whether it overflowed
u64_mul(a, b) ==
    LET r == MulLE(a, b, 1, 0)
    IN [val |-> SubSeq(r, 1, Len(a)),
        overflow |-> \E i \in (Len(a) + 1)..(2 * Len(a)) : r[i] # 0]

\* an i64 from a small integer (two's complement)
I64(n) == IF n >= 0 THEN U64(n) ELSE u64_sub(U64(0), U64(0 - n)).val

Reverse(s) == [i \in 1..Len(s) |-> s[Len(s) + 1 - i]]

\* unsigned byte-wise (lexicographic) order of two buffers of equal length
RECURSIVE BytesLess(_, _)
BytesLess(x, y) ==
    IF x = <<>> \/ y = <<>> THEN FALSE
    ELSE IF Head(x) # Head(y) THEN Head(x) < Head(y)
    ELSE BytesLess(Tail(x), Tail(y))

I64Negative(a) == a[Len(a)] >= U8Modulus \div 2

I64Less(a, b) ==
    IF I64Negative(a) # I64Negative(b) THEN I64Negative(a)
    ELSE BytesLess(Reverse(a), Reverse(b))

RECURSIVE Concat(_)
Concat(ss) == IF ss = <<>> THEN <<>> ELSE Head(ss) \o Concat(Tail(ss))

RECURSIVE SumSeq(_)
SumSeq(s) == IF s = <<>> THEN 0 ELSE Head(s) + SumSeq(Tail(s))

----------------------------------------------------------------------------
(* DateTime<Utc>: whole seconds since the epoch (i64) and the sub-second    *)
(* nanoseconds, which chrono lets reach 1_999_999_999 (leap second).        *)

DateTimeOf(secs, nanos) == [secs |-> secs, nanos |-> nanos]

\* chrono's Ord for NaiveDateTime: seconds first, then the fraction
DateTimeLess(a, b) ==
    \/ I64Less(a.secs, b.secs)
    \/ a.secs = b.secs /\ a.nanos < b.nanos

MAX_DATETIME == DateTimeOf(I64(I32Max), MaxNanosecond)

nanos_since_epoch(datetime) ==
    LET timestamp == datetime.secs
        nanoseconds == U64(datetime.nanos)
        m == u64_mul(timestamp, U64(NanosPerSec))
        s == u64_add(m.val, nanoseconds)
    IN [val |-> s.val, overflow |-> m.overflow \/ s.overflow]

----------------------------------------------------------------------------
(* Component *)

CUuid(u) == [tag |-> "Uuid", uuid |-> u]
CProperty(id, d) == [data |-> d, tag |-> "Property", id |-> id]
CFixedLengthString(s) == [s |-> s, tag |-> "FixedLengthString"]
CIdentifier(t) == [tag |-> "Identifier", t |-> t]
CDateTime(dt) == [datetime |-> dt, tag |-> "DateTime"]
CBytes(b) == [tag |-> "Bytes", bytes |-> b]

ComponentLen(c) ==
    CASE c.tag = "Uuid" -> UuidLen
      [] c.tag = "FixedLengthString" -> Len(c.s)
      [] c.tag = "Identifier" -> Len(c.t) + 1
      [] c.tag = "DateTime" -> DateTimeLen
      [] c.tag = "Bytes" -> Len(c.bytes)
      [] c.tag = "Property" -> Len(c.data)

Written(b) == [bytes |-> b, kind |-> "ok"]
WritePanic == [bytes |-> <<>>, kind |-> "panic"]

\* the bytes Component::write appends to the cursor, or a panic
ComponentWrite(c, checks) ==
    CASE c.tag = "Uuid" -> Written(c.uuid)
      [] c.tag = "FixedLengthString" -> Written(c.s)
      [] c.tag = "Identifier" -> Written(<<Len(c.t) % U8Modulus>> \o c.t)
      [] c.tag = "DateTime" ->
            LET hi == nanos_since_epoch(MAX_DATETIME)
                lo == nanos_since_epoch(c.datetime)
                time_to_end == u64_sub(hi.val, lo.val)
            IN IF checks /\ (hi.overflow \/ lo.overflow \/ time_to_end.overflow)
               THEN WritePanic
               ELSE Written(Reverse(time_to_end.val))
      [] c.tag = "Bytes" -> Written(c.bytes)
      [] c.tag = "Property" ->
            Written(c.id \o <<Len(c.data) % U8Modulus>> \o c.data)

RECURSIVE WriteAll(_, _)
WriteAll(cs, checks) ==
    IF cs = <<>> THEN Written(<<>>)
    ELSE LET w == ComponentWrite(Head(cs), checks)
             rest == WriteAll(Tail(cs), checks)
         IN IF w.kind = "panic" \/ rest.kind = "panic" THEN WritePanic
            ELSE Written(w.bytes \o rest.bytes)

\* build_bytes: len is the capacity reserved from the declared lengths
build_bytes(cs, checks) ==
    LET len == SumSeq([i \in 1..Len(cs) |-> ComponentLen(cs[i])])
        w == WriteAll(cs, checks)
    IN [bytes |-> w.bytes, kind |-> w.kind, len |-> len]

build_meta(size, length) == <<size, length % U8Modulus>>

----------------------------------------------------------------------------
(* EdgeController *)

Uuid(k) == [i \in 1..UuidLen |-> k]
Vertices == {Uuid(1), Uuid(2)}
Calls == 1..MaxCalls

\* type names handed to create: "a", "ab" and the empty name
TypeNames == {<<97>>, <<97, 98>>, <<>>}

\* Identifier::new accepts a name of 1 to 255 bytes
IdentifierValid(t) == Len(t) >= 1 /\ Len(t) < U8Modulus

\* key with the two vertex ids exchanged
key_swapped(out_id, t, in_id) ==
    build_bytes(<<CUuid(in_id), CIdentifier(t), CUuid(out_id)>>, TRUE).bytes

\* key that writes out_id in both UUID positions
key_without_in_id(out_id, t, in_id) ==
    build_bytes(<<CUuid(out_id), CIdentifier(t), CUuid(out_id)>>, TRUE).bytes

\* EdgeController::key
key(out_id, t, in_id) ==
    build_bytes(<<CUuid(out_id), CIdentifier(t), CUuid(in_id)>>, TRUE).bytes

\* the transactional store: writes stay in the transaction until it commits
tx_set(tx, k) == tx \cup {k}
tx_commit(cf, tx) == cf \cup tx

\* the stored properties of one edge
EdgeProps(source, t, target) == [t |-> t, source |-> source, target |-> target]

\* EdgePropertyController::create persists the properties of (source, t, target)
\* through the datastore handle it was built from
epc_create(stored, source, t, target) ==
    stored \cup {EdgeProps(source, t, target)}

IdleCall ==
    [t |-> <<>>, key |-> <<>>, pc |-> "idle", source |-> <<>>, target |-> <<>>,
     tx |-> {}, steps |-> <<>>]

Panicked(r) ==
    [r EXCEPT !.pc = "panicked", !.tx = {},
              !.steps = IF r.steps = <<>> THEN <<>> ELSE r.steps \o <<"Abort">>]

\* create, up to its first await: open the transaction, build the Identifier and the key
CreateOpen(c, source, target, t) ==
    /\ calls[c].pc = "idle"
    /\ c > 1 => calls[c - 1].pc # "idle"   \* invocations are numbered as they start
    /\ \E ok \in BOOLEAN :
          calls' = [calls EXCEPT ![c] =
              IF ~ok THEN Panicked([IdleCall EXCEPT !.source = source,
                                        !.target = target, !.t = t])
              ELSE IF ~IdentifierValid(t)
              THEN Panicked([IdleCall EXCEPT !.source = source, !.target = target,
                                 !.t = t, !.steps = <<"Open">>])
              ELSE [t |-> t, key |-> key(target, t, source), pc |-> "opened",
                    source |-> source, target |-> target, tx |-> {},
                    steps |-> <<"Open">>]]
    /\ UNCHANGED <<edges, props, overflow_checks, buildVars, decodeVars>>

\* epc.create(source, t, target, props).await.unwrap()
CreateProps(c) ==
    /\ calls[c].pc = "opened"
    /\ \E ok \in BOOLEAN :
          IF ok
          THEN /\ props' = epc_create(props, calls[c].source, calls[c].t,
                                      calls[c].target)
               /\ calls' = [calls EXCEPT ![c].pc = "props_done",
                                         ![c].steps = @ \o <<"PropWrite">>]
          ELSE /\ props' = props
               /\ calls' = [calls EXCEPT ![c] = Panicked(@)]
    /\ UNCHANGED <<edges, overflow_checks, buildVars, decodeVars>>

\* tx.set(cf, key, []).await.unwrap()
CreateSet(c) ==
    /\ calls[c].pc = "props_done"
    /\ \E ok \in BOOLEAN :
          calls' = [calls EXCEPT ![c] =
              IF ok THEN [@ EXCEPT !.pc = "key_set",
                                   !.tx = tx_set(calls[c].tx, calls[c].key),
                                   !.steps = @ \o <<"KeyWrite">>]
              ELSE Panicked(@)]
    /\ UNCHANGED <<edges, props, overflow_checks, buildVars, decodeVars>>

\* tx.commit().await.unwrap(), then Edge::new and Ok(edge)
CreateCommit(c) ==
    /\ calls[c].pc = "key_set"
    /\ \E ok \in BOOLEAN :
          IF ok
          THEN /\ edges' = tx_commit(edges, calls[c].tx)
               /\ calls' = [calls EXCEPT ![c].pc = "done", ![c].tx = {},
                                         ![c].steps = @ \o <<"Commit">>]
          ELSE /\ edges' = edges
               /\ calls' = [calls EXCEPT ![c] = Panicked(@)]
    /\ UNCHANGED <<props, overflow_checks, buildVars, decodeVars>>

NoResult == [kind |-> "none"]

InitEdge ==
    /\ edges = {}
    /\ props = {}
    /\ calls = [c \in Calls |-> IdleCall]

IdleBuild ==
    /\ components = <<>>
    /\ built = NoResult

IdleDecode ==
    /\ has_discriminator = FALSE
    /\ groups = <<>>
    /\ data = <<>>
    /\ truncated = FALSE
    /\ decoded = NoResult

Init ==
    /\ overflow_checks \in BOOLEAN
    /\ InitEdge
    /\ IdleBuild
    /\ IdleDecode

Next ==
    \/ \E c \in Calls, source \in Vertices, target \in Vertices, t \in TypeNames :
          CreateOpen(c, source, target, t)
    \/ \E c \in Calls : CreateProps(c)
    \/ \E c \in Calls : CreateSet(c)
    \/ \E c \in Calls : CreateCommit(c)

Spec == Init /\ [][Next]_vars

----------------------------------------------------------------------------
(* Properties of EdgeController, checked under Spec *)

ValidTypeNames == {t \in TypeNames : IdentifierValid(t)}
Started(c) == calls[c].pc \in {"opened", "props_done", "key_set", "done"}
Triple(c) == <<calls[c].source, calls[c].target, calls[c].t>>

\* C1: in every reachable state, the composite key of an edge is in the edges
\* partition if and only if the properties of that edge are committed.
C1_EdgeAtomic ==
    \A source \in Vertices, target \in Vertices, t \in ValidTypeNames :
        key(target, t, source) \in edges <=> EdgeProps(source, t, target) \in props

\* C2: a create that succeeded ran Open, key write, property write, Commit in
\* that order; a create that failed ended in Abort without a Commit.
C2_CreateSequence ==
    \A c \in Calls :
        /\ calls[c].pc = "done" =>
               calls[c].steps = <<"Open", "KeyWrite", "PropWrite", "Commit">>
        /\ calls[c].pc = "panicked" =>
               /\ \A i \in 1..Len(calls[c].steps) : calls[c].steps[i] # "Commit"
               /\ calls[c].steps # <<>> =>
                      calls[c].steps[Len(calls[c].steps)] = "Abort"

\* C8: key(A, t, B) is UUID(A), one length byte, the name of t, UUID(B); it
\* differs from key(B, t, A) when A # B; every key create writes, pending in a
\* transaction or committed to the edges partition, is target first, source last.
C8_KeyOrientation ==
    /\ \A c \in Calls : Started(c) =>
          LET r == calls[c]
              layout == r.target \o <<Len(r.t)>> \o r.t \o r.source
          IN /\ r.key = layout
             /\ r.tx \subseteq {layout}
             /\ key(r.source, r.t, r.target) = r.source \o <<Len(r.t)>> \o r.t \o r.target
             /\ r.source # r.target => key(r.source, r.t, r.target) # r.key
    /\ \A k \in edges : \E c \in Calls :
          /\ calls[c].pc = "done"
          /\ k = calls[c].target \o <<Len(calls[c].t)>> \o calls[c].t \o calls[c].source

C8_Witness ==
    \E c \in Calls :
        /\ calls[c].pc = "done"
        /\ calls[c].source # calls[c].target
        /\ calls[c].key \in edges

\* C10: two creates build the same key only for the same (source, target, type),
\* and the edges partition holds one key per distinct committed triple.
C10_KeyInjective ==
    /\ \A c1 \in Calls, c2 \in Calls :
          (Started(c1) /\ Started(c2) /\ calls[c1].key = calls[c2].key)
              => Triple(c1) = Triple(c2)
    /\ Cardinality(edges) =
          Cardinality({Triple(c) : c \in {d \in Calls : calls[d].pc = "done"}})

C10_Witness ==
    \E c1 \in Calls, c2 \in Calls :
        /\ calls[c1].pc = "done" /\ calls[c2].pc = "done"
        /\ calls[c1].target = calls[c2].target
        /\ calls[c1].source # calls[c2].source
        /\ Len(calls[c1].t) # Len(calls[c2].t)
        /\ Cardinality(edges) = 2

----------------------------------------------------------------------------
(* build_bytes on its own: SpecBuild draws the component list and applies it *)

MaxComponents == 2

\* seconds after the last second MAX_DATETIME lies in
AfterMax(d) == u64_add(I64(I32Max), U64(d)).val

SampleSeconds ==
    {I64(0 - 1), I64(0), I64(1577836800), I64(1609459200), I64(I32Max),
     AfterMax(1), AfterMax(2)}

SampleNanos == {0, NanosPerSec - 1, NanosPerSec + (NanosPerSec \div 2), MaxNanosecond}

SampleDateTimes == {DateTimeOf(s, n) : s \in SampleSeconds, n \in SampleNanos}

\* n bytes that depend on their position and on seed
Fill(n, seed) == [j \in 1..n |-> (17 * seed + j) % U8Modulus]

SampleComponents ==
    {CUuid(Uuid(1)), CUuid(Uuid(2)),
     CIdentifier(<<97>>), CIdentifier(<<97, 98>>),
     CFixedLengthString(<<97, 98>>), CBytes(<<>>), CBytes(<<7>>),
     CProperty(Uuid(3), Fill(0, 1)), CProperty(Uuid(3), Fill(5, 1))}
    \cup {CDateTime(dt) : dt \in SampleDateTimes}

ComponentLists ==
    UNION {[1..n -> SampleComponents] : n \in 1..MaxComponents}

InitBuild ==
    /\ overflow_checks \in BOOLEAN
    /\ InitEdge
    /\ IdleDecode
    /\ components \in ComponentLists
    /\ built = NoResult

BuildBytes ==
    /\ built = NoResult
    /\ built' = build_bytes(components, overflow_checks)
    /\ UNCHANGED <<components, overflow_checks, edgeVars, decodeVars>>

NextBuild == BuildBytes

SpecBuild == InitBuild /\ [][NextBuild]_vars

\* C3: the buffer build_bytes returns is as long as the lengths its components
\* declare, and a Property entry declares the 16 + 1 + len(data) bytes it writes.
C3_DeclaredLenIsWritten ==
    built.kind = "ok" =>
        /\ Len(built.bytes) = built.len
        /\ \A i \in 1..Len(components) :
              components[i].tag = "Property" =>
                  ComponentLen(components[i]) = UuidLen + 1 + Len(components[i].data)

\* C7: of two timestamps t1 < t2, the first is written as the greater 8 bytes
\* under unsigned byte-wise comparison.
C7_LaterSortsFirst ==
    (/\ built # NoResult
     /\ Len(components) = 2
     /\ components[1].tag = "DateTime" /\ components[2].tag = "DateTime"
     /\ DateTimeLess(components[1].datetime, components[2].datetime))
    => /\ built.kind = "ok"
       /\ BytesLess(SubSeq(built.bytes, DateTimeLen + 1, 2 * DateTimeLen),
                    SubSeq(built.bytes, 1, DateTimeLen))

----------------------------------------------------------------------------
(* The meta-tagged value decoder *)

\* AccountDiscriminator as bincode writes it: the variant index, 4 bytes
DiscNone == <<0, 0, 0, 0>>
DiscProperty == <<1, 0, 0, 0>>

discriminator_serialize(d) == IF d = "Property" THEN DiscProperty ELSE DiscNone

discriminator_deserialize(b) ==
    IF b = DiscProperty THEN "Property" ELSE IF b = DiscNone THEN "None" ELSE "error"

DecodePanic == [records |-> <<>>, discriminator |-> <<>>, kind |-> "panic", consumed |-> 0]
DecodeDiverge ==
    [records |-> <<>>, discriminator |-> <<>>, kind |-> "diverge", consumed |-> 0]
DecodeOk(ans, n, d) ==
    [records |-> ans, discriminator |-> discriminator_serialize(d), kind |-> "ok",
     consumed |-> n]

\* the loop of the Property branch; seen holds the values total_len has had
RECURSIVE PropertyLoop(_, _, _, _, _, _)
PropertyLoop(d, offset, total_len, ans, seen, checks) ==
    IF total_len >= Len(d) THEN DecodeOk(ans, Len(d), "Property")
    ELSE IF total_len \in seen THEN DecodeDiverge
    ELSE
      LET o == IF total_len = 0 THEN offset - 2 ELSE total_len
          len_index == UuidLen + o
      IN IF len_index >= Len(d) THEN DecodePanic
         ELSE
           LET len == d[len_index + 1]
           IN IF len_index + len >= Len(d) THEN DecodePanic
              ELSE
                LET uuid == SubSeq(d, o + 1, len_index)
                    bytes == SubSeq(d, len_index + 2, len_index + 1 + len)
                    a1 == (len_index % U8Modulus) + 1
                    a2 == (a1 % U8Modulus) + len
                    a3 == (a2 % U8Modulus) - total_len
                    a4 == total_len + ((a3 + U8Modulus) % U8Modulus)
                    overflow == \/ a1 >= U8Modulus \/ a2 >= U8Modulus
                                \/ a3 < 0 \/ a4 >= U8Modulus
                IN IF checks /\ overflow THEN DecodePanic
                   ELSE PropertyLoop(d, offset, a4 % U8Modulus,
                                     Append(ans, uuid \o bytes),
                                     seen \cup {total_len}, checks)

FixedBranch(d, offset, disc, checks) ==
    IF Len(d) < offset THEN DecodePanic
    ELSE
      LET size == d[offset - 1]
          length == d[offset]
          len == (size * length) % U8Modulus
      IN IF checks /\ size * length >= U8Modulus THEN DecodePanic
         ELSE IF len + offset > Len(d) THEN DecodePanic
         ELSE
           LET slice == SubSeq(d, offset + 1, offset + len)
               ind(x) == (x * length) % U8Modulus
               bad == \E i \in 0..(size - 1) :
                         \/ checks /\ (i + 1) * length >= U8Modulus
                         \/ ind(i) > ind(i + 1)
                         \/ ind(i + 1) > Len(slice)
           IN IF bad THEN DecodePanic
              ELSE DecodeOk([i \in 1..size |-> SubSeq(slice, ind(i - 1) + 1, ind(i))],
                            Len(slice) + offset, disc)

deserialize_data_with_meta(d, has_disc, checks) ==
    LET meta_length == MetaLength
        offset == IF has_disc THEN meta_length + DiscriminatorLength ELSE meta_length
    IN IF has_disc /\ Len(d) < offset - 2 THEN DecodePanic
       ELSE
         LET discriminator ==
               IF has_disc THEN discriminator_deserialize(SubSeq(d, 1, offset - 2))
               ELSE "None"
         IN CASE discriminator = "error" -> DecodePanic
              [] discriminator = "Property" ->
                    PropertyLoop(d, offset, 0, <<>>, {}, checks)
              [] OTHER -> FixedBranch(d, offset, discriminator, checks)

AllDone(kind, result, lengths) ==
    [kind |-> kind, result |-> result, lengths |-> lengths]

RECURSIVE ByteDataLoop(_, _, _, _, _, _, _)
ByteDataLoop(d, has_disc, start, total_length, result, lengths, checks) ==
    IF total_length = 0 THEN AllDone("ok", result, lengths)
    ELSE IF start > Len(d) THEN AllDone("panic", <<>>, <<>>)
    ELSE
      LET slice == SubSeq(d, start + 1, Len(d))
          r == deserialize_data_with_meta(slice, has_disc, checks)
      IN IF r.kind # "ok" THEN AllDone(r.kind, <<>>, <<>>)
         ELSE IF r.consumed > total_length THEN AllDone("panic", <<>>, <<>>)
         ELSE ByteDataLoop(d, has_disc, start + r.consumed, total_length - r.consumed,
                           Append(result, [records |-> r.records,
                                           discriminator |-> r.discriminator]),
                           Append(lengths, r.consumed), checks)

deserialize_byte_data(d, has_disc, checks) ==
    ByteDataLoop(d, has_disc, 0, Len(d), <<>>, <<>>, checks)

----------------------------------------------------------------------------
(* SpecDecode: a stored value is packed group by group, may lose trailing   *)
(* bytes, and is then handed to one of the two decoders.                    *)

MaxGroups == 2
MaxEntries == 3

FixedSizes == {0, 1, 3, 16}
FixedLengths == {0, 4, 16}
PropertyDataLens == {0, 5, U8Modulus - 1}

FixedGroup(size, length) ==
    [size |-> size, length |-> length, type |-> "fixed",
     entries |-> [i \in 1..size |-> Fill(length, i)]]

PropertyGroup(lens) ==
    [size |-> Len(lens), length |-> 0, type |-> "property",
     entries |-> [i \in 1..Len(lens) |-> [data |-> Fill(lens[i], i), id |-> Uuid(10 + i)]]]

\* the bytes of one group: the discriminator when the value is tagged, then
\* [size, length] and the entries, or the Property entries
EncodeGroup(g, has_disc) ==
    IF g.type = "fixed"
    THEN (IF has_disc THEN discriminator_serialize("None") ELSE <<>>)
         \o build_meta(g.size, g.length) \o Concat(g.entries)
    ELSE discriminator_serialize("Property")
         \o build_bytes([i \in 1..Len(g.entries) |->
                            CProperty(g.entries[i].id, g.entries[i].data)], TRUE).bytes

\* the records a group is to decode into
GroupRecords(g) ==
    IF g.type = "fixed" THEN g.entries
    ELSE [i \in 1..Len(g.entries) |-> g.entries[i].id \o g.entries[i].data]

GroupDiscriminator(g) ==
    discriminator_serialize(IF g.type = "fixed" THEN "None" ELSE "Property")

InitDecode ==
    /\ overflow_checks \in BOOLEAN
    /\ InitEdge
    /\ IdleBuild
    /\ has_discriminator \in BOOLEAN
    /\ groups = <<>>
    /\ data = <<>>
    /\ truncated = FALSE
    /\ decoded = NoResult

PackFixed(size, length) ==
    /\ decoded = NoResult
    /\ ~truncated
    /\ Len(groups) < MaxGroups
    /\ groups' = Append(groups, FixedGroup(size, length))
    /\ data' = data \o EncodeGroup(FixedGroup(size, length), has_discriminator)
    /\ UNCHANGED <<has_discriminator, truncated, decoded, overflow_checks,
                   edgeVars, buildVars>>

PackProperty(lens) ==
    /\ has_discriminator
    /\ decoded = NoResult
    /\ ~truncated
    /\ Len(groups) < MaxGroups
    /\ groups' = Append(groups, PropertyGroup(lens))
    /\ data' = data \o EncodeGroup(PropertyGroup(lens), has_discriminator)
    /\ UNCHANGED <<has_discriminator, truncated, decoded, overflow_checks,
                   edgeVars, buildVars>>

\* the stored value loses its last byte
Truncate ==
    /\ decoded = NoResult
    /\ ~truncated
    /\ data # <<>>
    /\ data' = SubSeq(data, 1, Len(data) - 1)
    /\ truncated' = TRUE
    /\ UNCHANGED <<has_discriminator, groups, decoded, overflow_checks,
                   edgeVars, buildVars>>

DecodeGroup ==
    /\ decoded = NoResult
    /\ decoded' = [op |-> "deserialize_data_with_meta",
                   out |-> deserialize_data_with_meta(data, has_discriminator,
                                                      overflow_checks)]
    /\ UNCHANGED <<has_discriminator, groups, data, truncated, overflow_checks,
                   edgeVars, buildVars>>

DecodeAll ==
    /\ decoded = NoResult
    /\ decoded' = [op |-> "deserialize_byte_data",
                   out |-> deserialize_byte_data(data, has_discriminator,
                                                 overflow_checks)]
    /\ UNCHANGED <<has_discriminator, groups, data, truncated, overflow_checks,
                   edgeVars, buildVars>>

NextDecode ==
    \/ \E size \in FixedSizes, length \in FixedLengths : PackFixed(size, length)
    \/ \E n \in 0..MaxEntries : \E lens \in [1..n -> PropertyDataLens] :
          PackProperty(lens)
    \/ Truncate
    \/ DecodeGroup
    \/ DecodeAll

SpecDecode == InitDecode /\ [][NextDecode]_vars

----------------------------------------------------------------------------
(* Properties of the decoders, checked under SpecDecode *)

Intact == ~truncated /\ decoded # NoResult

\* C4: one group of one or more Property entries with data of 0 to 255 bytes each,
\* decoded by deserialize_data_with_meta with the discriminator, gives one record
\* id \o data per entry, in order, and a consumed length equal to the buffer length.
C4_PropertyRoundTrip ==
    (/\ Intact
     /\ decoded.op = "deserialize_data_with_meta"
     /\ has_discriminator
     /\ Len(groups) = 1
     /\ groups[1].type = "property"
     /\ groups[1].size >= 1)
    => /\ decoded.out.kind = "ok"
       /\ decoded.out.records = GroupRecords(groups[1])
       /\ decoded.out.consumed = Len(data)

\* C5: build_meta(c, n) followed by c entries of n bytes, decoded without a
\* discriminator, gives the c entries in order and consumes 2 + c * n bytes.
C5_FixedRoundTrip ==
    (/\ Intact
     /\ decoded.op = "deserialize_data_with_meta"
     /\ ~has_discriminator
     /\ Len(groups) = 1
     /\ groups[1].type = "fixed")
    => /\ decoded.out.kind = "ok"
       /\ decoded.out.records = groups[1].entries
       /\ decoded.out.consumed = MetaLength + groups[1].size * groups[1].length

\* a group that deserialize_data_with_meta decodes back when it is stored alone
DecodesAlone(g) ==
    LET bytes == EncodeGroup(g, has_discriminator)
        r == deserialize_data_with_meta(bytes, has_discriminator, overflow_checks)
    IN r.kind = "ok" /\ r.records = GroupRecords(g) /\ r.consumed = Len(bytes)

\* C6: deserialize_byte_data on the concatenation of k groups, in any order and
\* each of them decodable alone, returns k results, one per group and in order,
\* and the consumed lengths sum to the buffer length.
C6_MultiGroupExhaustion ==
    (/\ Intact
     /\ decoded.op = "deserialize_byte_data"
     /\ \A i \in 1..Len(groups) : DecodesAlone(groups[i]))
    => /\ decoded.out.kind = "ok"
       /\ Len(decoded.out.result) = Len(groups)
       /\ \A i \in 1..Len(groups) :
             i <= Len(decoded.out.result) =>
                /\ decoded.out.result[i].records = GroupRecords(groups[i])
                /\ decoded.out.result[i].discriminator = GroupDiscriminator(groups[i])
       /\ SumSeq(decoded.out.lengths) = Len(data)

\* C9: a buffer that lost trailing bytes makes neither decoder crash: the call
\* returns a value (an error value when the bytes it needs are missing).
C9_DecodeErrorIsTyped ==
    (truncated /\ decoded # NoResult) => decoded.out.kind \notin {"panic", "diverge"}

====
